---------------------------- MODULE Spec2Model ----------------------------
(***************************************************************************)
(* A model of universal_field_toolkit_correlator_sred.py: the statistical  *)
(* helpers (compute_correlations, group_by_texture, compute_statistics,    *)
(* compute_data_density, generate_narrative_insights), the report writer,  *)
(* the image duplication step and main.                                    *)
(*                                                                         *)
(* Numbers that the program rounds to 3 decimals are kept in thousandths:  *)
(* <<"num", 1000>> is 1.0 and <<"nan", 0>> is NaN.                         *)
(***************************************************************************)
EXTENDS Integers, Sequences, FiniteSets, TLC

VARIABLES
    df,        \* the dataset handed to the helpers (pd.DataFrame)
    corr,      \* result of compute_correlations
    grouped,   \* result of group_by_texture
    stats,     \* result of compute_statistics
    density,   \* result of compute_data_density (an insertion-ordered dict)
    insights,  \* result of generate_narrative_insights
    fs,        \* the working directory: entry name -> entry
    fsPrev,    \* the working directory as it was before the last call
    order,     \* the order in which os.listdir gave the entries to the last call
    raised,    \* TRUE when the last call ended by raising
    stdout,    \* what the last call printed
    calls      \* the calls made so far, oldest first

vars == <<df, corr, grouped, stats, density, insights, fs, fsPrev, order, raised, stdout, calls>>

-----------------------------------------------------------------------------
(* Bounds of the model.                                                    *)

MaxRows == 3          \* rows of a dataset given to compute_correlations
MaxGroupRows == 2     \* rows of a dataset given to the grouping and summary helpers
MaxDensityRows == 13  \* rows of a one-class dataset given to compute_data_density
MaxMixedRows == 6     \* rows of a two-class dataset given to compute_data_density
MaxCalls == 2         \* successive calls on one working directory

-----------------------------------------------------------------------------
(* Generic helpers.                                                        *)

Range(s) == {s[i] : i \in 1..Len(s)}

RECURSIVE SeqSum(_)
SeqSum(s) == IF s = <<>> THEN 0 ELSE Head(s) + SeqSum(Tail(s))

SelectIn(s, S) == SelectSeq(s, LAMBDA x : x \in S)

Abs(x) == IF x < 0 THEN -x ELSE x

\* All orderings of the finite set S, as sequences.
Orderings(S) == {s \in [1..Cardinality(S) -> S] : Range(s) = S}

-----------------------------------------------------------------------------
(* Values.                                                                 *)

NaN == <<"nan", 0>>
Num(k) == <<"num", k>>
IsNaN(x) == x[1] = "nan"

\* A cell of a feature column as pd.read_csv delivers it: a number, a
\* missing value, or text that is no number.
NA == <<"na", 0>>
Bad == <<"bad", 0>>
IsNum(c) == c[1] = "num"

\* A missing Texture_Class cell.
NoClass == "<NA>"

FEATURE_COLUMNS ==
    << "Brightness", "Mean_R", "Mean_G", "Mean_B", "Normalized_Blue",
       "Color_Temp_Proxy", "Texture", "Relative_Texture_Variance",
       "Edge_Density", "Shadow_Intensity", "Shadow_Direction_Variance",
       "Relative_Brightness_Variance" >>

\* The code points of a column name or class label (what a string
\* comparison reads).
Chars(name) ==
    CASE name = "Brightness" -> <<66, 114, 105, 103, 104, 116, 110, 101, 115, 115>>
      [] name = "Mean_R" -> <<77, 101, 97, 110, 95, 82>>
      [] name = "Mean_G" -> <<77, 101, 97, 110, 95, 71>>
      [] name = "Mean_B" -> <<77, 101, 97, 110, 95, 66>>
      [] name = "Normalized_Blue" -> <<78, 111, 114, 109, 97, 108, 105, 122, 101, 100, 95, 66, 108, 117, 101>>
      [] name = "Color_Temp_Proxy" -> <<67, 111, 108, 111, 114, 95, 84, 101, 109, 112, 95, 80, 114, 111, 120, 121>>
      [] name = "Texture" -> <<84, 101, 120, 116, 117, 114, 101>>
      [] name = "Relative_Texture_Variance" -> <<82, 101, 108, 97, 116, 105, 118, 101, 95, 84, 101, 120, 116, 117, 114, 101, 95, 86, 97, 114, 105, 97, 110, 99, 101>>
      [] name = "Edge_Density" -> <<69, 100, 103, 101, 95, 68, 101, 110, 115, 105, 116, 121>>
      [] name = "Shadow_Intensity" -> <<83, 104, 97, 100, 111, 119, 95, 73, 110, 116, 101, 110, 115, 105, 116, 121>>
      [] name = "Shadow_Direction_Variance" -> <<83, 104, 97, 100, 111, 119, 95, 68, 105, 114, 101, 99, 116, 105, 111, 110, 95, 86, 97, 114, 105, 97, 110, 99, 101>>
      [] name = "smooth" -> <<115, 109, 111, 111, 116, 104>>
      [] name = "grainy" -> <<103, 114, 97, 105, 110, 121>>
      [] name = "Relative_Brightness_Variance" -> <<82, 101, 108, 97, 116, 105, 118, 101, 95, 66, 114, 105, 103, 104, 116, 110, 101, 115, 115, 95, 86, 97, 114, 105, 97, 110, 99, 101>>

\* Python's a < b on two sequences of code points.
RECURSIVE SeqLess(_, _)
SeqLess(a, b) ==
    IF b = <<>> THEN FALSE
    ELSE IF a = <<>> THEN TRUE
    ELSE IF Head(a) # Head(b) THEN Head(a) < Head(b)
    ELSE SeqLess(Tail(a), Tail(b))

\* col1 < col2 on column names
StrLess(col1, col2) == SeqLess(Chars(col1), Chars(col2))

\* A pandas DataFrame: column labels, row labels, and a cell per (row, column).
EmptyFrame == [columns |-> <<>>, index |-> <<>>, cell |-> <<>>]
IsEmpty(frame) == frame.columns = <<>> \/ frame.index = <<>>

\* A dataset without column or row.
NoData == [cols |-> {}, rows |-> <<>>]

\* [col for col in FEATURE_COLUMNS if col in df.columns]
available_features(d) == SelectIn(FEATURE_COLUMNS, d.cols)

-----------------------------------------------------------------------------
(* compute_data_density                                                    *)

\* df["Texture_Class"].dropna()
ClassColumn(d) ==
    SelectSeq([i \in 1..Len(d.rows) |-> d.rows[i].tc], LAMBDA c : c # NoClass)

CountOf(col, cls) == Len(SelectSeq(col, LAMBDA c : c = cls))

\* The distinct values of col in order of first appearance.
RECURSIVE FirstSeen(_)
FirstSeen(col) ==
    IF col = <<>> THEN <<>>
    ELSE LET init == FirstSeen(SubSeq(col, 1, Len(col) - 1))
             last == col[Len(col)]
         IN IF last \in Range(init) THEN init ELSE Append(init, last)

\* Insert cls into keys (sorted by falling count) after every key that
\* counts at least as much.
RECURSIVE InsertByCount(_, _, _)
InsertByCount(keys, cls, col) ==
    IF keys = <<>> THEN <<cls>>
    ELSE IF CountOf(col, Head(keys)) >= CountOf(col, cls)
         THEN <<Head(keys)>> \o InsertByCount(Tail(keys), cls, col)
         ELSE <<cls>> \o keys

RECURSIVE SortByCount(_, _)
SortByCount(keys, col) ==
    IF keys = <<>> THEN <<>>
    ELSE InsertByCount(SortByCount(SubSeq(keys, 1, Len(keys) - 1), col),
                       keys[Len(keys)], col)

\* Series.value_counts(): (value, count) pairs, largest count first; equal
\* counts keep the order of first appearance.
value_counts(col) ==
    LET keys == SortByCount(FirstSeen(col), col)
    IN [i \in 1..Len(keys) |-> <<keys[i], CountOf(col, keys[i])>>]

\* The labels with the two thresholds taken inclusively.
ConfidenceLabelOffByOne(n) ==
    IF n <= 5 THEN <<"Low", n>>
    ELSE IF n <= 12 THEN <<"Medium", n>>
    ELSE <<"High", n>>

\* The label an f-string builds: <<tier, n>> stands for "<tier> Confidence (n=<n>)".
ConfidenceLabel(n) ==
    IF n < 5 THEN <<"Low", n>>
    ELSE IF n < 12 THEN <<"Medium", n>>
    ELSE <<"High", n>>

\* The dict is kept as the sequence of its (key, value) items in insertion order.
compute_data_density(d) ==
    IF "Texture_Class" \notin d.cols THEN <<>>
    ELSE LET counts == value_counts(ClassColumn(d))
         IN [i \in 1..Len(counts) |->
                <<counts[i][1], ConfidenceLabel(counts[i][2])>>]

DictKeys(dict) == {dict[i][1] : i \in 1..Len(dict)}

-----------------------------------------------------------------------------
(* compute_correlations                                                    *)

\* pd.to_numeric(cell, errors="raise"): text that is no number raises
\* ValueError, written <<"raise", 0>>.
to_numericRaising(c) == IF c = Bad THEN <<"raise", 0>> ELSE c

\* pd.to_numeric(cell, errors="coerce"): text that is no number becomes
\* missing; nothing is raised.
to_numeric(c) == IF IsNum(c) THEN c ELSE NA

\* TRUE when compute_correlations raises on d: it coerces the selected
\* columns once it has found two of them.
CoercionRaises(d) ==
    /\ Len(available_features(d)) >= 2
    /\ \E i \in 1..Len(d.rows) : \E c \in Range(available_features(d)) :
           to_numeric(d.rows[i].f[c])[1] = "raise"

\* df[available_features].apply(pd.to_numeric, errors="coerce").dropna():
\* the rows whose every selected cell is a number, in their order.
dropna(d, features) ==
    SelectSeq(d.rows,
              LAMBDA row : \A c \in Range(features) : IsNum(to_numeric(row.f[c])))

\* floor(sqrt(m)) for 0 <= m, searched in lo..hi
RECURSIVE IsqrtIn(_, _, _)
IsqrtIn(lo, hi, m) ==
    IF lo >= hi THEN lo
    ELSE LET mid == (lo + hi + 1) \div 2
         IN IF mid * mid <= m THEN IsqrtIn(mid, hi, m) ELSE IsqrtIn(lo, mid - 1, m)

\* |1000 * sqrt(q / d)| rounded to the nearest integer, halves to even
\* (numpy's round), for 0 <= q <= d, 0 < d.  4000000*q \div d is taken in
\* two steps of 2000 to stay within machine integers.
RoundedRatioRoot(q, d) ==
    LET a == (2000 * q) \div d
        ra == (2000 * q) % d
        b == (2000 * ra) \div d
        rb == (2000 * ra) % d
        m == 2000 * a + b
        s == IsqrtIn(0, 2000, m)
        k == (s + 1) \div 2
        half == rb = 0 /\ s * s = m /\ s % 2 = 1
    IN IF half /\ k % 2 = 1 THEN k - 1 ELSE k

\* The covariance sum alone, not divided by the two spreads.
PearsonUnnormalised(rows, c1, c2) ==
    LET n == Len(rows)
        x == [i \in 1..n |-> rows[i].f[c1][2]]
        y == [i \in 1..n |-> rows[i].f[c2][2]]
        sxy == n * SeqSum([i \in 1..n |-> x[i] * y[i]]) - SeqSum(x) * SeqSum(y)
    IN Num(1000 * sxy)

\* Pearson's r of two columns over the rows given, rounded to 3 decimals.
\* A column without spread has no r: pandas yields NaN (its divisor is 0),
\* on the diagonal as well.
Pearson(rows, c1, c2) ==
    LET n == Len(rows)
        x == [i \in 1..n |-> rows[i].f[c1][2]]
        y == [i \in 1..n |-> rows[i].f[c2][2]]
        sx == SeqSum(x)
        sy == SeqSum(y)
        sxx == n * SeqSum([i \in 1..n |-> x[i] * x[i]]) - sx * sx
        syy == n * SeqSum([i \in 1..n |-> y[i] * y[i]]) - sy * sy
        sxy == n * SeqSum([i \in 1..n |-> x[i] * y[i]]) - sx * sy
    IN IF sxx * syy = 0 THEN NaN
       ELSE LET k == RoundedRatioRoot(sxy * sxy, sxx * syy)
            IN Num(IF sxy < 0 THEN -k ELSE k)

\* DataFrame.corr(method="pearson").round(3)
CorrFrame(rows, features) ==
    [columns |-> features, index |-> features,
     cell |-> [p \in Range(features) \X Range(features) |->
                  Pearson(rows, p[1], p[2])]]

compute_correlations(d) ==
    LET features == available_features(d)
    IN IF Len(features) < 2 THEN EmptyFrame
       ELSE LET df_features == dropna(d, features)
            IN IF Len(df_features) < 2 THEN EmptyFrame
               ELSE CorrFrame(df_features, features)

-----------------------------------------------------------------------------
(* group_by_texture and compute_statistics                                 *)

\* The dtype pd.read_csv gives a column: numeric unless a cell holds text
\* that is no number (then the whole column is object); the columns of a
\* file with a header and no row are object too.
IsNumericColumn(d, c) ==
    /\ d.rows # <<>>
    /\ \A i \in 1..Len(d.rows) : d.rows[i].f[c] # Bad

\* numerator / denominator rounded to the nearest integer, halves to even
\* (numpy's round), for numerator >= 0 and denominator > 0.
RoundDiv(numerator, denominator) ==
    LET q == numerator \div denominator
        r2 == 2 * (numerator % denominator)
    IN IF r2 < denominator THEN q
       ELSE IF r2 > denominator THEN q + 1
       ELSE IF q % 2 = 0 THEN q ELSE q + 1

\* The numbers of column c in the rows given (missing cells skipped).
Numbers(rows, c) ==
    LET cells == SelectSeq([i \in 1..Len(rows) |-> rows[i].f[c]], IsNum)
    IN [i \in 1..Len(cells) |-> cells[i][2]]

\* mean().round(3) of the numbers given; NaN when there is none.
Mean(xs) ==
    IF xs = <<>> THEN NaN ELSE Num(RoundDiv(1000 * SeqSum(xs), Len(xs)))

\* Distinct labels in the order of their strings (groupby sorts its keys).
SortedLabels(keys) ==
    LET n == Len(keys)
        rank(i) == 1 + Cardinality({j \in 1..n : StrLess(keys[j], keys[i])})
    IN [p \in 1..n |-> keys[CHOOSE i \in 1..n : rank(i) = p]]

\* Numbers in rising order.
SortedNumbers(xs) ==
    LET n == Len(xs)
        rank(i) == 1 + Cardinality({j \in 1..n : \/ xs[j] < xs[i]
                                                 \/ (xs[j] = xs[i] /\ j < i)})
    IN [p \in 1..n |-> xs[CHOOSE i \in 1..n : rank(i) = p]]

\* The columns .mean(numeric_only=True) and .describe() keep.
NumericOnly(d, available) ==
    SelectSeq(available, LAMBDA c : IsNumericColumn(d, c))

group_by_texture(d) ==
    IF "Texture_Class" \notin d.cols THEN EmptyFrame
    ELSE IF ClassColumn(d) = <<>> THEN EmptyFrame
    ELSE LET available == available_features(d)
         IN IF available = <<>> THEN EmptyFrame
            ELSE LET kept == NumericOnly(d, available)
                     groups == SortedLabels(FirstSeen(ClassColumn(d)))
                     members(g) == SelectSeq(d.rows, LAMBDA row : row.tc = g)
                 IN [columns |-> kept, index |-> groups,
                     cell |-> [p \in Range(groups) \X Range(kept) |->
                                  Mean(Numbers(members(p[1]), p[2]))]]

\* Series.std(): the sample standard deviation, rounded to 3 decimals.
Std(xs) ==
    LET n == Len(xs)
        sxx == n * SeqSum([i \in 1..n |-> xs[i] * xs[i]]) - SeqSum(xs) * SeqSum(xs)
        s == IsqrtIn(0, 46340, (4000000 * sxx) \div (n * (n - 1)))
    IN IF n < 2 THEN NaN ELSE Num((s + 1) \div 2)

\* Series.quantile(j/4) with linear interpolation, in thousandths.
Quantile(xs, j) ==
    LET n == Len(xs)
        v == SortedNumbers(xs)
        lo == ((n - 1) * j) \div 4
        frac4 == ((n - 1) * j) % 4
    IN IF n = 0 THEN NaN
       ELSE IF frac4 = 0 THEN Num(1000 * v[lo + 1])
       ELSE Num(1000 * v[lo + 1] + 250 * frac4 * (v[lo + 2] - v[lo + 1]))

DescribeLabels == <<"count", "mean", "std", "min", "25%", "50%", "75%", "max">>
DescribeObjectLabels == <<"count", "unique", "top", "freq">>

\* One cell of describe() for a numeric column.
DescribeCell(label, xs) ==
    LET v == SortedNumbers(xs)
    IN CASE label = "count" -> Num(1000 * Len(xs))
         [] label = "mean" -> Mean(xs)
         [] label = "std" -> Std(xs)
         [] label = "min" -> IF xs = <<>> THEN NaN ELSE Num(1000 * v[1])
         [] label = "25%" -> Quantile(xs, 1)
         [] label = "50%" -> Quantile(xs, 2)
         [] label = "75%" -> Quantile(xs, 3)
         [] label = "max" -> IF xs = <<>> THEN NaN ELSE Num(1000 * v[Len(v)])

\* One cell of describe() for an object column: the cells that are not
\* missing are counted as values; "top" is the most frequent of them, the
\* earliest on a tie.
DescribeObjectCell(label, column) ==
    LET present == SelectSeq(column, LAMBDA c : c # NA)
        values == FirstSeen(present)
        top == SortByCount(values, present)
    IN CASE label = "count" -> Num(1000 * Len(present))
         [] label = "unique" -> Num(1000 * Len(values))
         [] label = "top" -> IF top = <<>> THEN NaN ELSE top[1]
         [] label = "freq" -> IF top = <<>> THEN NaN
                              ELSE Num(1000 * CountOf(present, top[1]))

\* df[available_features].describe().round(3): the numeric columns alone
\* when there is one, the object summary of every column otherwise.
compute_statistics(d) ==
    LET available == available_features(d)
        kept == NumericOnly(d, available)
        column(c) == [i \in 1..Len(d.rows) |-> d.rows[i].f[c]]
    IN IF available = <<>> THEN EmptyFrame
       ELSE IF kept # <<>>
       THEN [columns |-> kept, index |-> DescribeLabels,
             cell |-> [p \in Range(DescribeLabels) \X Range(kept) |->
                          DescribeCell(p[1], Numbers(d.rows, p[2]))]]
       ELSE [columns |-> available, index |-> DescribeObjectLabels,
             cell |-> [p \in Range(DescribeObjectLabels) \X Range(available) |->
                          DescribeObjectCell(p[1], column(p[2]))]]

-----------------------------------------------------------------------------
(* generate_narrative_insights                                             *)

\* A sentence of the insight list.  kind is "insufficient", "corr"
\* ("{a} has {strength} {direction} correlation with {b} (r = {r})."),
\* "density_header", "density" ("  - {msg}") or "no_density".
Sentence(kind, a, b, strength, direction, r, msg) ==
    [kind |-> kind, a |-> a, b |-> b, strength |-> strength,
     direction |-> direction, r |-> r, msg |-> msg]

Plain(kind) == Sentence(kind, "", "", "", "", NaN, <<"", 0>>)

\* abs(r) > t for r in thousandths; a comparison with NaN is False.
AbsAbove(r, t) == ~IsNaN(r) /\ Abs(r[2]) > t

\* r > 0; a comparison with NaN is False.
Positive(r) == ~IsNaN(r) /\ r[2] > 0

\* The strength with the two thresholds taken inclusively.
StrengthInclusive(r) ==
    IF ~IsNaN(r) /\ Abs(r[2]) >= 700 THEN "very strong"
    ELSE IF ~IsNaN(r) /\ Abs(r[2]) >= 500 THEN "strong"
    ELSE ""

\* The strength of r, "" when the pair is skipped.
Strength(r) ==
    IF AbsAbove(r, 700) THEN "very strong"
    ELSE IF AbsAbove(r, 500) THEN "strong"
    ELSE ""

\* A test that drops self-correlation alone.
PairTakenAlways(col1, col2) == col1 # col2

\* if col1 < col2: the test that lets one of (col1, col2), (col2, col1) through
PairTaken(col1, col2) == StrLess(col1, col2)

\* for col1 in corr.columns: for col2 in corr.columns: the pairs in loop order
LoopPairs(columns) ==
    LET n == Len(columns)
    IN [k \in 1..(n * n) |->
           <<columns[((k - 1) \div n) + 1], columns[((k - 1) % n) + 1]>>]

CorrelationSentences(c) ==
    LET taken == SelectSeq(LoopPairs(c.columns),
                           LAMBDA p : /\ PairTaken(p[1], p[2])
                                      /\ Strength(c.cell[p]) # "")
    IN [k \in 1..Len(taken) |->
           Sentence("corr", taken[k][1], taken[k][2], Strength(c.cell[taken[k]]),
                    IF Positive(c.cell[taken[k]]) THEN "positive" ELSE "negative",
                    c.cell[taken[k]], <<"", 0>>)]

DensitySentences(dens) ==
    IF dens # <<>>
    THEN <<Plain("density_header")>> \o
         [k \in 1..Len(dens) |->
             Sentence("density", "", "", "", "", NaN, dens[k][2])]
    ELSE <<Plain("no_density")>>

generate_narrative_insights(c, dens) ==
    (IF IsEmpty(c) THEN <<Plain("insufficient")>> ELSE CorrelationSentences(c))
        \o DensitySentences(dens)

-----------------------------------------------------------------------------
(* df_to_markdown and generate_markdown_report                             *)

\* A rendered section: the placeholder line alone, or a header line and
\* one line of cell values per row (the separator line says nothing more).
Section(placeholder, header, rows) ==
    [placeholder |-> placeholder, header |-> header, rows |-> rows]

\* The row labels are not rendered: only row.values are joined.
df_to_markdown(frame) ==
    IF IsEmpty(frame) THEN Section("_No data available_", <<>>, <<>>)
    ELSE Section("", frame.columns,
                 [i \in 1..Len(frame.index) |->
                     [j \in 1..Len(frame.columns) |->
                         frame.cell[<<frame.index[i], frame.columns[j]>>]]])

\* What generate_markdown_report writes under the title, section by section.
ReportText(c, g, st, dens) ==
    [insights |-> generate_narrative_insights(c, dens),
     matrix |-> IF ~IsEmpty(c) THEN df_to_markdown(c)
                ELSE Section("_Insufficient valid data for correlation matrix_", <<>>, <<>>),
     groups |-> IF ~IsEmpty(g) THEN df_to_markdown(g)
                ELSE Section("_No texture groups available_", <<>>, <<>>),
     statistics |-> IF ~IsEmpty(st) THEN df_to_markdown(st)
                    ELSE Section("_No statistics available_", <<>>, <<>>),
     density |-> IF dens # <<>> THEN Section("", <<>>, dens)
                 ELSE Section("_No texture classification data available_", <<>>, <<>>)]

-----------------------------------------------------------------------------
(* The working directory.                                                  *)

\* A name is the sequence of the pieces it is made of, so "img1_analyzed.jpg"
\* is <<"img1", "_analyzed", ".jpg">>.  No piece but "_analyzed" contains
\* the text "_analyzed", and the last piece is the extension splitext cuts.
CSV_PATH == <<"field_data", ".csv">>
REPORT_PATH == <<"correlations", ".md">>

NoText == ReportText(EmptyFrame, EmptyFrame, EmptyFrame, <<>>)

\* Directory entries: an image (or any file read as bytes), the dataset
\* file (by the table pd.read_csv reads from it), a report, a directory.
ImageFile(bytes) == [kind |-> "file", bytes |-> bytes, table |-> NoData, text |-> NoText]
CsvFile(table) == [kind |-> "file", bytes |-> 0, table |-> table, text |-> NoText]
ReportFile(text) == [kind |-> "file", bytes |-> 0, table |-> NoData, text |-> text]
Directory == [kind |-> "dir", bytes |-> 0, table |-> NoData, text |-> NoText]

\* os.path.isfile
isfile(dir, name) == name \in DOMAIN dir /\ dir[name].kind = "file"

\* open(path, "w") ... write: the file is created or replaced as a whole.
WriteEntry(dir, name, entry) ==
    [n \in DOMAIN dir \cup {name} |-> IF n = name THEN entry ELSE dir[n]]

\* filename.endswith("_analyzed.jpg") or filename.endswith("_analyzed.jpeg")
EndsWithAnalyzed(filename) ==
    /\ Len(filename) >= 2
    /\ filename[Len(filename) - 1] = "_analyzed"
    /\ filename[Len(filename)] \in {".jpg", ".jpeg"}

\* base.replace("_analyzed", ""): every occurrence goes, not the last alone
ReplaceAnalyzed(base) == SelectSeq(base, LAMBDA piece : piece # "_analyzed")

\* f"{core}_correlated{ext}" for base, ext = os.path.splitext(filename)
Destination(filename) ==
    LET base == SubSeq(filename, 1, Len(filename) - 1)
        ext == filename[Len(filename)]
    IN ReplaceAnalyzed(base) \o <<"_correlated", ext>>

\* The names of os.listdir that pass the suffix test.
Matching(dir) == {n \in DOMAIN dir : EndsWithAnalyzed(n)}

\* shutil.copy2 for each matching name in the order given; copying a
\* directory raises (IsADirectoryError), which nothing catches: the names
\* after it are not visited.
RECURSIVE CopyAll(_, _)
CopyAll(dir, names) ==
    IF names = <<>> THEN [fs |-> dir, raised |-> FALSE]
    ELSE IF dir[Head(names)].kind = "dir"
         THEN [fs |-> dir, raised |-> TRUE]
         ELSE CopyAll(WriteEntry(dir, Destination(Head(names)),
                                 ImageFile(dir[Head(names)].bytes)),
                      Tail(names))

\* names: the matching names in the order os.listdir gave them
generate_correlated_images(dir, names) == CopyAll(dir, names)

generate_markdown_report(dir, c, g, st, dens) ==
    WriteEntry(dir, REPORT_PATH, ReportFile(ReportText(c, g, st, dens)))

\* main, with the directory it starts in and the order os.listdir will give.
\* The result: the directory it leaves, whether it raised, what it printed,
\* and its locals.
MainResult(dir, isRaised, out, d, c, g, st, dens) ==
    [fs |-> dir, raised |-> isRaised, out |-> out, df |-> d,
     corr |-> c, grouped |-> g, stats |-> st, density |-> dens]

\* The rest of main once the four helpers have returned.
ReportAndImages(dir, names, d, c, g, st, dens) ==
    LET images == generate_correlated_images(
                      generate_markdown_report(dir, c, g, st, dens), names)
    IN MainResult(images.fs, images.raised,
                  <<"Loaded rows from CSV", "correlations.md generated">>
                      \o (IF images.raised THEN <<>>
                          ELSE <<"Correlated images created", "Correlator complete">>),
                  d, c, g, st, dens)

NotFound(dir, isRaised) ==
    MainResult(dir, isRaised, <<"ERROR: field_data.csv not found">>, NoData,
               EmptyFrame, EmptyFrame, EmptyFrame, <<>>)

\* A main that duplicates the images before it looks for the dataset.
mainImagesFirst(dir, names) ==
    LET images == generate_correlated_images(dir, names)
    IN NotFound(images.fs, images.raised)

main(dir, names) ==
    IF ~isfile(dir, CSV_PATH) THEN NotFound(dir, FALSE)
    ELSE ReportAndImages(dir, names, dir[CSV_PATH].table,
                         compute_correlations(dir[CSV_PATH].table),
                         group_by_texture(dir[CSV_PATH].table),
                         compute_statistics(dir[CSV_PATH].table),
                         compute_data_density(dir[CSV_PATH].table))

-----------------------------------------------------------------------------
(* The helpers as a state machine: a dataset (or a matrix) is given, and   *)
(* each helper is called on it.                                            *)

\* A working directory without entry.
NoDir == <<>>

Called(name) == name \in Range(calls)

StatsIdle ==
    /\ corr = EmptyFrame /\ grouped = EmptyFrame /\ stats = EmptyFrame
    /\ density = <<>> /\ insights = <<>>

FilesIdle ==
    /\ fs = NoDir /\ fsPrev = NoDir /\ order = <<>> /\ raised = FALSE
    /\ stdout = <<>>

ClassLabels == {"smooth", "grainy"}

\* Datasets for compute_data_density: no feature column, and a
\* Texture_Class column (one label and missing cells in up to
\* MaxDensityRows rows, or two labels and missing cells in up to
\* MaxMixedRows rows) or none.
ClassDataset(col) ==
    [cols |-> {"Photo_Filename", "Texture_Class"},
     rows |-> [i \in 1..Len(col) |-> [tc |-> col[i], f |-> <<>>]]]

NoClassDataset(n) ==
    [cols |-> {"Photo_Filename"},
     rows |-> [i \in 1..n |-> [tc |-> NoClass, f |-> <<>>]]]

InitDensity ==
    /\ \/ \E n \in 0..MaxDensityRows : \E col \in [1..n -> {"smooth", NoClass}] :
              df = ClassDataset(col)
       \/ \E n \in 0..MaxMixedRows : \E col \in [1..n -> ClassLabels \cup {NoClass}] :
              df = ClassDataset(col)
       \/ \E n \in 0..MaxMixedRows : df = NoClassDataset(n)
    /\ StatsIdle /\ FilesIdle /\ calls = <<>>

ComputeDataDensity ==
    /\ ~Called("compute_data_density")
    /\ density' = compute_data_density(df)
    /\ calls' = Append(calls, "compute_data_density")
    /\ UNCHANGED <<df, corr, grouped, stats, insights, fs, fsPrev, order, raised, stdout>>

NextDensity == ComputeDataDensity

SpecDensity == InitDensity /\ [][NextDensity]_vars

\* Datasets for compute_correlations: any of two catalog columns beside a
\* column the catalog does not know, cells that are small numbers, missing
\* or text.
FeaturePool == {"Brightness", "Mean_R"}
FeatureCells == {Num(0), Num(1), Num(2), NA, Bad}

FeatureDataset(features, cells) ==
    [cols |-> features \cup {"Photo_Filename"},
     rows |-> [i \in 1..Len(cells) |-> [tc |-> NoClass, f |-> cells[i]]]]

InitCorr ==
    /\ \E features \in SUBSET FeaturePool : \E n \in 0..MaxRows :
           \E cells \in [1..n -> [features -> FeatureCells]] :
               df = FeatureDataset(features, cells)
    /\ StatsIdle /\ FilesIdle /\ calls = <<>>

ComputeCorrelations ==
    /\ ~Called("compute_correlations")
    /\ raised' = CoercionRaises(df)
    /\ corr' = IF CoercionRaises(df) THEN corr ELSE compute_correlations(df)
    /\ calls' = Append(calls, "compute_correlations")
    /\ UNCHANGED <<df, grouped, stats, density, insights, fs, fsPrev, order, stdout>>

NextCorr == ComputeCorrelations

SpecCorr == InitCorr /\ [][NextCorr]_vars

\* Datasets for group_by_texture and compute_statistics: as above, with or
\* without a Texture_Class column.
GroupDataset(features, hasClass, cells, classes) ==
    [cols |-> features \cup {"Photo_Filename"}
                  \cup (IF hasClass THEN {"Texture_Class"} ELSE {}),
     rows |-> [i \in 1..Len(cells) |->
                  [tc |-> IF hasClass THEN classes[i] ELSE NoClass, f |-> cells[i]]]]

InitGroup ==
    /\ \E features \in SUBSET FeaturePool : \E hasClass \in BOOLEAN :
       \E n \in 0..MaxGroupRows :
       \E cells \in [1..n -> [features -> FeatureCells]] :
       \E classes \in [1..n -> ClassLabels \cup {NoClass}] :
           /\ (~hasClass => \A i \in 1..n : classes[i] = NoClass)
           /\ df = GroupDataset(features, hasClass, cells, classes)
    /\ StatsIdle /\ FilesIdle /\ calls = <<>>

GroupByTexture ==
    /\ ~Called("group_by_texture")
    /\ grouped' = group_by_texture(df)
    /\ calls' = Append(calls, "group_by_texture")
    /\ UNCHANGED <<df, corr, stats, density, insights, fs, fsPrev, order, raised, stdout>>

ComputeStatistics ==
    /\ ~Called("compute_statistics")
    /\ stats' = compute_statistics(df)
    /\ calls' = Append(calls, "compute_statistics")
    /\ UNCHANGED <<df, corr, grouped, density, insights, fs, fsPrev, order, raised, stdout>>

NextGroup == GroupByTexture \/ ComputeStatistics

SpecGroup == InitGroup /\ [][NextGroup]_vars

\* Inputs of generate_narrative_insights: no matrix, or a symmetric matrix
\* with unit diagonal over columns of the pool in catalog order, whose
\* other cells sit on and beside the thresholds; and a density dict.
InsightPool == {"Brightness", "Mean_R", "Mean_G"}
InsightCells ==
    {Num(k) : k \in {-701, -700, -501, -500, 0, 500, 501, 700, 701}} \cup {NaN}
DensityInputs ==
    { <<>>,
      << <<"smooth", <<"Low", 1>> >> >>,
      << <<"grainy", <<"High", 12>> >>, <<"smooth", <<"Medium", 5>> >> >> }

\* The unordered pairs of S, each as a set of two.
Pairs(S) == {{a, b} : a, b \in S} \ {{a} : a \in S}

MatrixOver(columns, r) ==
    [columns |-> columns, index |-> columns,
     cell |-> [p \in Range(columns) \X Range(columns) |->
                  IF p[1] = p[2] THEN Num(1000) ELSE r[{p[1], p[2]}]]]

InitInsights ==
    /\ \/ corr = EmptyFrame
       \/ \E S \in (SUBSET InsightPool) \ {{}} :
          \E r \in [Pairs(S) -> InsightCells] :
              corr = MatrixOver(SelectIn(FEATURE_COLUMNS, S), r)
    /\ density \in DensityInputs
    /\ df = NoData /\ grouped = EmptyFrame /\ stats = EmptyFrame /\ insights = <<>>
    /\ FilesIdle /\ calls = <<>>

GenerateNarrativeInsights ==
    /\ ~Called("generate_narrative_insights")
    /\ insights' = generate_narrative_insights(corr, density)
    /\ calls' = Append(calls, "generate_narrative_insights")
    /\ UNCHANGED <<df, corr, grouped, stats, density, fs, fsPrev, order, raised, stdout>>

NextInsights == GenerateNarrativeInsights

SpecInsights == InitInsights /\ [][NextInsights]_vars

\* Working directories for main and generate_correlated_images.  The
\* dataset file is absent, a directory, or holds one of two tables; a report
\* of an earlier run may lie there; of the images, one name holds the text
\* "_analyzed" twice, and each may be absent, a file or a directory.
HappyPath ==
    [cols |-> {"Photo_Filename", "Brightness", "Mean_R", "Texture_Class"},
     rows |-> << [tc |-> "smooth", f |-> [Brightness |-> Num(10), Mean_R |-> Num(100)]],
                 [tc |-> "grainy", f |-> [Brightness |-> Num(20), Mean_R |-> Num(120)]] >>]

WithText ==
    [cols |-> {"Photo_Filename", "Brightness", "Mean_R", "Texture_Class"},
     rows |-> << [tc |-> "smooth", f |-> [Brightness |-> Num(10), Mean_R |-> Num(100)]],
                 [tc |-> "smooth", f |-> [Brightness |-> Bad, Mean_R |-> Num(120)]],
                 [tc |-> NoClass, f |-> [Brightness |-> Num(30), Mean_R |-> NA]] >>]

Absent == [kind |-> "absent", bytes |-> 0, table |-> NoData, text |-> NoText]
Images == {ImageFile(1), ImageFile(2)}

Img1 == <<"img1", "_analyzed", ".jpg">>
Img1Twice == <<"img1", "_analyzed", "_analyzed", ".jpg">>
Img2 == <<"img2", "_analyzed", ".jpeg">>
Note == <<"note", ".txt">>
Img1Correlated == <<"img1", "_correlated", ".jpg">>

EntryPool == {CSV_PATH, REPORT_PATH, Img1, Img1Twice, Img2, Note, Img1Correlated}

EntryChoices(name) ==
    CASE name = CSV_PATH -> {Absent, Directory, CsvFile(HappyPath), CsvFile(WithText)}
      [] name = REPORT_PATH -> {Absent, ReportFile(NoText)}
      [] name \in {Img1, Img1Twice} -> {Absent, Directory} \cup Images
      [] name = Img2 -> {Absent, Directory, ImageFile(1)}
      [] name = Note -> {ImageFile(1)}
      [] name = Img1Correlated -> {Absent, ImageFile(2)}

InitFiles ==
    /\ \E csv \in EntryChoices(CSV_PATH) : \E report \in EntryChoices(REPORT_PATH) :
       \E a \in EntryChoices(Img1) : \E b \in EntryChoices(Img1Twice) :
       \E c \in EntryChoices(Img2) : \E n \in EntryChoices(Note) :
       \E o \in EntryChoices(Img1Correlated) :
           LET all == (CSV_PATH :> csv) @@ (REPORT_PATH :> report) @@ (Img1 :> a)
                          @@ (Img1Twice :> b) @@ (Img2 :> c) @@ (Note :> n)
                          @@ (Img1Correlated :> o)
           IN fs = [name \in {x \in EntryPool : all[x] # Absent} |-> all[name]]
    /\ fsPrev = NoDir /\ order = <<>> /\ raised = FALSE /\ stdout = <<>>
    /\ df = NoData /\ StatsIdle /\ calls = <<>>

\* One run of main: os.listdir gives the entries in some order.
Main ==
    /\ Len(calls) < MaxCalls
    /\ \E names \in Orderings(Matching(fs)) :
           \E result \in {main(fs, names)} :
              /\ fs' = result.fs
              /\ raised' = result.raised
              /\ stdout' = result.out
              /\ df' = result.df
              /\ corr' = result.corr
              /\ grouped' = result.grouped
              /\ stats' = result.stats
              /\ density' = result.density
              /\ insights' = generate_narrative_insights(result.corr, result.density)
              /\ order' = names
    /\ fsPrev' = fs
    /\ calls' = Append(calls, "main")

\* generate_correlated_images called on its own.
GenerateCorrelatedImages ==
    /\ Len(calls) < MaxCalls
    /\ \E names \in Orderings(Matching(fs)) :
           \E result \in {generate_correlated_images(fs, names)} :
              /\ fs' = result.fs
              /\ raised' = result.raised
              /\ order' = names
    /\ stdout' = <<>>
    /\ fsPrev' = fs
    /\ calls' = Append(calls, "generate_correlated_images")
    /\ UNCHANGED <<df, corr, grouped, stats, density, insights>>

NextFiles == Main \/ GenerateCorrelatedImages

SpecFiles == InitFiles /\ [][NextFiles]_vars

-----------------------------------------------------------------------------
(* Claims about compute_data_density.                                      *)

RowsOfClass(cls) == {i \in 1..Len(df.rows) : df.rows[i].tc = cls}

\* C1: with a Texture_Class column, the keys of the density map are the
\* distinct non-missing Texture_Class values, each once, and a key carried
\* by n rows maps to Low for n < 5, Medium for 5 <= n < 12 and High for
\* n >= 12, with that n in the label; without the column the map is empty.
C1_DensityLabels ==
    Called("compute_data_density") =>
        IF "Texture_Class" \in df.cols
        THEN /\ DictKeys(density) =
                    {df.rows[i].tc : i \in 1..Len(df.rows)} \ {NoClass}
             /\ Len(density) = Cardinality(DictKeys(density))
             /\ \A i \in 1..Len(density) :
                    LET n == Cardinality(RowsOfClass(density[i][1]))
                        tier == density[i][2][1]
                    IN /\ density[i][2][2] = n
                       /\ (n < 5 => tier = "Low")
                       /\ (5 <= n /\ n < 12 => tier = "Medium")
                       /\ (n >= 12 => tier = "High")
        ELSE density = <<>>

\* A dataset with a missing cell in which a class has exactly 12 rows.
C1_Witness ==
    /\ Called("compute_data_density")
    /\ RowsOfClass(NoClass) # {}
    /\ \E i \in 1..Len(density) : density[i][2] = <<"High", 12>>

-----------------------------------------------------------------------------
(* Claims about compute_correlations.                                      *)

PresentFeatures == {c \in Range(FEATURE_COLUMNS) : c \in df.cols}

ValidRows ==
    {i \in 1..Len(df.rows) : \A c \in PresentFeatures : df.rows[i].f[c][1] = "num"}

\* Column c holds one value in every valid row.
ConstantColumn(c) ==
    \A i, j \in ValidRows : df.rows[i].f[c] = df.rows[j].f[c]

InUnitRange(x) == ~IsNaN(x) /\ -1000 <= x[2] /\ x[2] <= 1000

-----------------------------------------------------------------------------
(* Claims about generate_narrative_insights.                               *)

\* The places in the insight list of the correlation sentences about a, b.
SentencesAbout(a, b) ==
    {k \in 1..Len(insights) :
        insights[k].kind = "corr" /\ {insights[k].a, insights[k].b} = {a, b}}

\* C2: for a non-empty matrix, a pair of distinct columns with coefficient
\* r has no sentence when |r| <= 0.5, exactly one, "strong", when
\* 0.5 < |r| <= 0.7 and exactly one, "very strong", when |r| > 0.7; the
\* direction is "positive" for r > 0 and "negative" for r < 0.
C2_StrengthThresholds ==
    (Called("generate_narrative_insights") /\ ~IsEmpty(corr)) =>
        \A a, b \in Range(corr.columns) :
            (a # b /\ ~IsNaN(corr.cell[<<a, b>>])) =>
                LET r == corr.cell[<<a, b>>][2]
                    about == SentencesAbout(a, b)
                IN /\ (Abs(r) <= 500 => about = {})
                   /\ (500 < Abs(r) /\ Abs(r) <= 700 =>
                          /\ Cardinality(about) = 1
                          /\ \A k \in about : insights[k].strength = "strong")
                   /\ (Abs(r) > 700 =>
                          /\ Cardinality(about) = 1
                          /\ \A k \in about : insights[k].strength = "very strong")
                   /\ \A k \in about :
                          /\ (r > 0 => insights[k].direction = "positive")
                          /\ (r < 0 => insights[k].direction = "negative")
                          /\ insights[k].r = Num(r)

\* Three columns whose pairs sit at 0.5 (silent), 0.7 (strong, positive)
\* and -0.701 (very strong, negative).
C2_Witness ==
    /\ Called("generate_narrative_insights")
    /\ Len(corr.columns) = 3
    /\ \E p, q, w \in DOMAIN corr.cell :
          /\ corr.cell[p] = Num(500) /\ SentencesAbout(p[1], p[2]) = {}
          /\ corr.cell[q] = Num(700) /\ corr.cell[w] = Num(-701)
    /\ \E k \in 1..Len(insights) :
          insights[k].strength = "strong" /\ insights[k].direction = "positive"
    /\ \E k \in 1..Len(insights) :
          insights[k].strength = "very strong" /\ insights[k].direction = "negative"

PositionIn(columns, c) == CHOOSE i \in 1..Len(columns) : columns[i] = c

IsDensityKind(kind) == kind \in {"density_header", "density", "no_density"}

\* C9 as claimed: in every correlation sentence feature A comes before
\* feature B in the matrix column order.
C9_AsClaimed ==
    Called("generate_narrative_insights") =>
        \A k \in 1..Len(insights) :
            insights[k].kind = "corr" =>
                PositionIn(corr.columns, insights[k].a)
                    < PositionIn(corr.columns, insights[k].b)

\* C9 amended: every pair of distinct columns is let through exactly once
\* (it has at most one sentence, and has one when |r| > 0.5); in every
\* correlation sentence feature A is the name that compares smaller as a
\* string than feature B (which is not always the earlier column); all
\* correlation sentences precede all density sentences.
C9_LexicographicPairOrder ==
    Called("generate_narrative_insights") =>
        /\ \A a, b \in Range(corr.columns) :
               a # b =>
                   /\ Cardinality(SentencesAbout(a, b)) <= 1
                   /\ (~IsNaN(corr.cell[<<a, b>>]) /\ Abs(corr.cell[<<a, b>>][2]) > 500
                          => Cardinality(SentencesAbout(a, b)) = 1)
        /\ \A k \in 1..Len(insights) :
               insights[k].kind = "corr" =>
                   SeqLess(Chars(insights[k].a), Chars(insights[k].b))
        /\ \A i, j \in 1..Len(insights) :
               (insights[i].kind = "corr" /\ IsDensityKind(insights[j].kind)) => i < j

\* Sentences for three pairs, one of them naming the later column first,
\* followed by density lines.
C9_Witness ==
    /\ Called("generate_narrative_insights")
    /\ Cardinality({k \in 1..Len(insights) : insights[k].kind = "corr"}) = 3
    /\ \E k \in 1..Len(insights) :
          insights[k].kind = "corr" /\ insights[k].a = "Mean_G" /\ insights[k].b = "Mean_R"
    /\ \E k \in 1..Len(insights) : insights[k].kind = "density"

-----------------------------------------------------------------------------
(* Claims about group_by_texture and compute_statistics.                   *)

ColumnNumbers(c) == Numbers(df.rows, c)
GroupNumbers(g, c) == Numbers(SelectSeq(df.rows, LAMBDA row : row.tc = g), c)

\* C10 as claimed: text in a feature cell counts as a missing cell only, so
\* every present catalog column is a column of the grouped-means table
\* (when there is a class to group by) and of the summary table, with its
\* mean taken over the column's numeric cells.
C10_AsClaimed ==
    /\ (Called("group_by_texture") /\ RowsOfClass(NoClass) # 1..Len(df.rows)
            /\ "Texture_Class" \in df.cols) =>
           \A c \in PresentFeatures :
               /\ c \in Range(grouped.columns)
               /\ \A g \in Range(grouped.index) :
                      grouped.cell[<<g, c>>] = Mean(GroupNumbers(g, c))
    /\ Called("compute_statistics") =>
           \A c \in PresentFeatures :
               /\ c \in Range(stats.columns)
               /\ "mean" \in Range(stats.index)
               /\ stats.cell[<<"mean", c>>] = Mean(ColumnNumbers(c))

-----------------------------------------------------------------------------
(* Claims about main and generate_correlated_images.                       *)

LastCall == IF calls = <<>> THEN "" ELSE calls[Len(calls)]

\* The matching entries of the directory the last call started in that are
\* regular files.
SourceImages == {n \in Matching(fsPrev) : fsPrev[n].kind = "file"}

\* C5: when the dataset file is absent, main prints the error message and
\* returns, and the working directory is as it was: no report created or
\* overwritten, no correlated image created, whatever images lie there.
C5_NoOutputWithoutInput ==
    (LastCall = "main" /\ ~isfile(fsPrev, CSV_PATH)) =>
        /\ fs = fsPrev
        /\ ~raised
        /\ stdout = <<"ERROR: field_data.csv not found">>

\* main returned for want of the dataset in a directory that holds an
\* analyzed image and an earlier report.
C5_Witness ==
    /\ LastCall = "main"
    /\ CSV_PATH \notin DOMAIN fsPrev
    /\ REPORT_PATH \in DOMAIN fsPrev
    /\ SourceImages # {}

\* The name the claim gives the copy: the trailing "_analyzed" alone replaced.
TrailingDestination(filename) ==
    SubSeq(filename, 1, Len(filename) - 2)
        \o <<"_correlated", filename[Len(filename)]>>

\* C6 as claimed, for the calls that return: every matching file
\* X_analyzed.<ext> has its copy X_correlated.<ext> with the same bytes,
\* also when X holds "_analyzed"; nothing else is created or changed, and
\* there are as many copies as matching files.
C6_AsClaimed ==
    (LastCall = "generate_correlated_images" /\ ~raised) =>
        LET copies == {TrailingDestination(n) : n \in SourceImages}
        IN /\ \A n \in SourceImages :
                  /\ isfile(fs, TrailingDestination(n))
                  /\ fs[TrailingDestination(n)].bytes = fsPrev[n].bytes
           /\ (DOMAIN fs) \ (DOMAIN fsPrev) \subseteq copies
           /\ \A n \in (DOMAIN fsPrev) \ copies : fs[n] = fsPrev[n]

\* C7 as claimed, for working directories whose matching entries are all
\* files: a second run of main right after a first leaves the directory
\* (report, images, dataset) as the first left it.
C7_AsClaimed ==
    (/\ Len(calls) >= 2
     /\ calls[Len(calls)] = "main" /\ calls[Len(calls) - 1] = "main"
     /\ \A n \in Matching(fs) : fs[n].kind = "file") =>
        fs = fsPrev

\* C8 as claimed: generate_correlated_images returns without raising, and
\* every matching file has its copy afterwards, whatever the order of
\* os.listdir and whichever matching entries cannot be copied.
C8_AsClaimed ==
    LastCall = "generate_correlated_images" =>
        /\ ~raised
        /\ \A n \in SourceImages : isfile(fs, Destination(n))

=============================================================================
